---- MODULE Spec2Model ----
(***************************************************************************)
(* Chess-framework momentum trader: the unit pool (PieceInventory, in both *)
(* chess_framework.py and chess_backtester_single_file.py) and the         *)
(* day-by-day backtest loop (run_backtest).                                 *)
(*                                                                         *)
(* Numbers.  Prices are positive integers; every derived quantity the code *)
(* holds in a float (unit values, momentum, scores) is an exact rational   *)
(* <<numerator, denominator>> in lowest terms with a positive denominator. *)
(* Dates are calendar day numbers; a missing value (None, NaN, "") is 0.   *)
(* Sequences are 1-based: row k of the code's tables is element k+1.       *)
(***************************************************************************)
EXTENDS Integers, Sequences, FiniteSets, TLC

(***************************************************************************)
(* Bounds of the model.                                                    *)
(***************************************************************************)
\* prices of the panel are drawn from 1..MaxPrice
MaxPrice == 3
\* the panel has at most NumDates rows
NumDates == 5
\* max_positions of the main specification is drawn from 1..MaxMaxPositions
MaxMaxPositions == 2
\* reclaim_window_days of the main specification is drawn from 1..MaxReclaim
MaxReclaim == 1
\* pool specification: the sub-budget is c / d with c in 1..MaxCapital or in
\* SampleCapitals and d in 1..MaxCapital + 1
MaxCapital == 1
\* pool specification: a unit is released while at most MaxHeld units are assigned
MaxHeld == 2

(***************************************************************************)
(* Exact rationals.                                                        *)
(***************************************************************************)
Abs(x) == IF x < 0 THEN -x ELSE x

RECURSIVE GCD(_, _)
GCD(a, b) == IF b = 0 THEN a ELSE GCD(b, a % b)

Rat(n, d) ==
    LET s == IF d < 0 THEN -1 ELSE 1
        g == GCD(Abs(n), Abs(d))
    IN  << (s * n) \div g, (s * d) \div g >>

RatLt(a, b) == a[1] * b[2] < b[1] * a[2]
RatLe(a, b) == a[1] * b[2] <= b[1] * a[2]
RatAdd(a, b) == Rat(a[1] * b[2] + b[1] * a[2], a[2] * b[2])
RatSub(a, b) == Rat(a[1] * b[2] - b[1] * a[2], a[2] * b[2])
RatMul(a, b) == Rat(a[1] * b[1], a[2] * b[2])
\* a / b for b # 0
RatDiv(a, b) == Rat(a[1] * b[2], a[2] * b[1])
\* floor of a rational (\div rounds toward minus infinity)
RatFloor(a) == a[1] \div a[2]

SetMin(S) == CHOOSE x \in S : \A y \in S : x <= y

RECURSIVE SeqSum(_)
SeqSum(s) == IF s = <<>> THEN 0 ELSE Head(s) + SeqSum(Tail(s))

RECURSIVE Repeat(_, _)
Repeat(x, n) == IF n = 0 THEN <<>> ELSE <<x>> \o Repeat(x, n - 1)

(***************************************************************************)
(* Constants of the program.                                               *)
(***************************************************************************)
TOTAL_POINTS == 39
\* "no unit available" / None; a unit is otherwise named by its place 1..15 in the pool
None == 0

(***************************************************************************)
(* State.                                                                  *)
(***************************************************************************)
VARIABLES
    \* ---- pool under test (pool and release specifications)
    impl,              \* which PieceInventory class: "framework" or "single_file"
    momentum_capital,  \* the sub-budget the pool was constructed from
    fw_pieces,         \* chess_framework.PieceInventory.pieces
    pieces,            \* chess_backtester_single_file.PieceInventory.pieces
    acquired,          \* the acquire call just made and what it returned
    released,          \* the last assign/release pair: unit, unassigned count before and after
    \* ---- run_backtest
    tickers,           \* cfg["tickers"]: the instruments 1..n, numbered in identifier order
    max_positions,     \* cfg["max_positions"]
    reclaim_window,    \* cfg["reclaim_window_days"]
    dates,             \* price_panel.index, rows read so far
    price_panel,       \* price_panel, rows read so far (row -> ticker -> price)
    i,                 \* the loop index (0-based, as in the code)
    pc,                \* position of run_backtest
    positions,         \* the open-position map, in insertion order
    to_close,          \* closes queued today and not yet executed
    cand_sorted,       \* candidates of today's open phase not yet served
    available_slots,   \* slots left in today's open phase
    trades,            \* tradebook.trades
    \* ---- functions applied on their own (function specification)
    call               \* the function applied last, its arguments and what it returned

poolvars == << impl, momentum_capital, fw_pieces, pieces, acquired, released >>
runvars == << tickers, max_positions, reclaim_window, dates, price_panel, i, pc,
              positions, to_close, cand_sorted, available_slots, trades >>
vars == << impl, momentum_capital, fw_pieces, pieces, acquired, released,
           tickers, max_positions, reclaim_window, dates, price_panel, i, pc,
           positions, to_close, cand_sorted, available_slots, trades, call >>

(***************************************************************************)
(* chess_backtester_single_file.PieceInventory                             *)
(***************************************************************************)
mapping ==
    << <<"Queen", 9, 1>>, <<"Rook", 5, 2>>, <<"Bishop", 3, 2>>,
       <<"Knight", 3, 2>>, <<"Pawn", 1, 8>> >>

RECURSIVE ExpandConfig(_)
ExpandConfig(m) ==
    IF m = <<>> THEN <<>>
    ELSE Repeat(<<Head(m)[1], Head(m)[2]>>, Head(m)[3]) \o ExpandConfig(Tail(m))

\* variant: the sub-budget is split over the number of units, not over the points
build_pieces_per_unit(capital) ==
    LET e == ExpandConfig(mapping)
        multiplier == RatDiv(capital, Rat(Len(e), 1))
    IN  [k \in 1..Len(e) |->
            [id |-> k, type |-> e[k][1], PV |-> e[k][2],
             value |-> RatMul(Rat(e[k][2], 1), multiplier), assigned |-> FALSE]]

\* multiplier = momentum_capital / TOTAL_POINTS; value = pv * multiplier
build_pieces(capital) ==
    LET e == ExpandConfig(mapping)
        multiplier == RatDiv(capital, Rat(TOTAL_POINTS, 1))
    IN  [k \in 1..Len(e) |->
            [id |-> k, type |-> e[k][1], PV |-> e[k][2],
             value |-> RatMul(Rat(e[k][2], 1), multiplier), assigned |-> FALSE]]

\* variant: the rank decides between the largest and the smallest unit
get_best_piece_for_rank_by_rank(ps, rank) ==
    LET unassigned == {k \in DOMAIN ps : ~ps[k].assigned}
    IN  IF unassigned = {} THEN None
        ELSE IF rank >= 5
             THEN SetMin({k \in unassigned : \A j \in unassigned : ps[j].PV <= ps[k].PV})
             ELSE SetMin({k \in unassigned : \A j \in unassigned : ps[k].PV <= ps[j].PV})

\* sorted(unassigned, key=-PV)[0]: the sort is stable, so the first of the largest
get_best_piece_for_rank(ps, rank) ==
    LET unassigned == {k \in DOMAIN ps : ~ps[k].assigned}
    IN  IF unassigned = {} THEN None
        ELSE SetMin({k \in unassigned : \A j \in unassigned : ps[j].PV <= ps[k].PV})

\* sorted(unassigned, key=PV)[0]: no restriction on the size class
get_tactical_piece(ps) ==
    LET unassigned == {k \in DOMAIN ps : ~ps[k].assigned}
    IN  IF unassigned = {} THEN None
        ELSE SetMin({k \in unassigned : \A j \in unassigned : ps[k].PV <= ps[j].PV})

assign_piece(ps, piece_id) ==
    [k \in DOMAIN ps |-> IF ps[k].id = piece_id THEN [ps[k] EXCEPT !.assigned = TRUE] ELSE ps[k]]

recycle_piece(ps, piece_id) ==
    [k \in DOMAIN ps |-> IF ps[k].id = piece_id THEN [ps[k] EXCEPT !.assigned = FALSE] ELSE ps[k]]

(***************************************************************************)
(* chess_framework: PieceType, Piece, PieceInventory                       *)
(***************************************************************************)
\* class PieceType(Enum): names in declaration order with their values
PieceTypeDecl ==
    << <<"KING", 0>>, <<"QUEEN", 9>>, <<"ROOK", 5>>, <<"BISHOP", 3>>,
       <<"KNIGHT", 3>>, <<"PAWN", 1>> >>

\* An Enum name whose value repeats an earlier one is an alias of that member:
\* PieceType.KNIGHT is PieceType.BISHOP.  A member is named by its first name.
PieceType(name) ==
    LET v == (CHOOSE d \in {PieceTypeDecl[k] : k \in DOMAIN PieceTypeDecl} : d[1] = name)[2]
        first == SetMin({k \in DOMAIN PieceTypeDecl : PieceTypeDecl[k][2] = v})
    IN  [name |-> PieceTypeDecl[first][1], value |-> v]

PIECE_CONFIG ==
    << <<PieceType("QUEEN"), 1>>, <<PieceType("ROOK"), 2>>, <<PieceType("BISHOP"), 2>>,
       <<PieceType("KNIGHT"), 2>>, <<PieceType("PAWN"), 8>> >>

\* a Piece as the dataclass constructs it
Piece(piece_id, piece_type, point_value, monetary_value) ==
    [piece_id |-> piece_id, piece_type |-> piece_type, point_value |-> point_value,
     monetary_value |-> monetary_value, assigned |-> FALSE,
     position |-> <<>>, entry_date |-> 0, entry_price |-> 0, entry_square |-> "none",
     current_price |-> 0, current_gain_loss_pct |-> 0, shares |-> 0,
     tactical_black |-> FALSE, tactical_reclaim_window |-> 0]

RECURSIVE ExpandPieceConfig(_)
ExpandPieceConfig(m) ==
    IF m = <<>> THEN <<>>
    ELSE Repeat(Head(m)[1], Head(m)[2]) \o ExpandPieceConfig(Tail(m))

fw_build_pieces(capital) ==
    LET e == ExpandPieceConfig(PIECE_CONFIG)
        multiplier == RatDiv(capital, Rat(TOTAL_POINTS, 1))
    IN  [k \in 1..Len(e) |->
            Piece(k, e[k], e[k].value, RatMul(Rat(e[k].value, 1), multiplier))]

fw_get_best_piece_for_rank(ps, rank) ==
    LET unassigned == {k \in DOMAIN ps : ~ps[k].assigned}
    IN  IF unassigned = {} THEN None
        ELSE SetMin({k \in unassigned :
                        \A j \in unassigned : ps[j].point_value <= ps[k].point_value})

fw_get_tactical_piece(ps) ==
    LET unassigned == {k \in DOMAIN ps :
                          /\ ~ps[k].assigned
                          /\ ps[k].piece_type \in {PieceType("PAWN"), PieceType("KNIGHT")}}
    IN  IF unassigned = {} THEN None
        ELSE SetMin({k \in unassigned :
                        \A j \in unassigned : ps[k].point_value <= ps[j].point_value})

fw_assign_piece(ps, piece_id) ==
    [k \in DOMAIN ps |->
        IF ps[k].piece_id = piece_id THEN [ps[k] EXCEPT !.assigned = TRUE] ELSE ps[k]]

unassign_piece(ps, piece_id) ==
    [k \in DOMAIN ps |->
        IF ps[k].piece_id = piece_id
        THEN [ps[k] EXCEPT !.assigned = FALSE, !.position = <<>>, !.entry_date = 0,
                           !.entry_price = 0, !.entry_square = "none", !.shares = 0,
                           !.tactical_black = FALSE]
        ELSE ps[k]]

(***************************************************************************)
(* Configuration and panel of run_backtest.                                *)
(***************************************************************************)
\* cfg["ma_period"]: the model runs the two-day window, for which the rolling
\* standard deviation of two returns r1, r2 is |r2 - r1| / sqrt(2)
MaPeriod == 2

NaN == <<0, 0>>
isna(x) == x[2] = 0

\* row k (0-based) of the panel, and Series.get(ticker, nan) on it
PriceAt(k, t) == IF t \in DOMAIN price_panel[k + 1] THEN price_panel[k + 1][t] ELSE 0
DateAt(k) == dates[k + 1]

(***************************************************************************)
(* compute_sos_frame, for the rows read so far.                            *)
(***************************************************************************)
\* price_df.rolling(window, min_periods=window).mean()
MA(k, t) ==
    IF k < MaPeriod - 1 THEN NaN
    ELSE Rat(SeqSum([j \in 1..MaPeriod |-> PriceAt(k - MaPeriod + j, t)]), MaPeriod)

\* price_df.pct_change().fillna(0)
Returns(k, t) ==
    IF k = 0 THEN Rat(0, 1) ELSE RatSub(Rat(PriceAt(k, t), PriceAt(k - 1, t)), Rat(1, 1))

\* returns.rolling(window, min_periods=window).std(), in units of 1/sqrt(2)
VOL(k, t) ==
    IF k < MaPeriod - 1 THEN NaN
    ELSE LET d == RatSub(Returns(k, t), Returns(k - 1, t))
         IN  Rat(Abs(d[1]), d[2])

\* price_df / ma - 1.0
MOM(k, t) ==
    IF isna(MA(k, t)) THEN NaN ELSE RatSub(RatDiv(Rat(PriceAt(k, t), 1), MA(k, t)), Rat(1, 1))

fillna0(x) == IF isna(x) THEN Rat(0, 1) ELSE x

\* the values f[1], ..., f[n] of one row across the tickers 1..n, as a tuple
RECURSIVE Across(_, _)
Across(f, n) == IF n = 0 THEN <<>> ELSE Append(Across(f, n - 1), f[n])

RECURSIVE RatMax(_)
RatMax(v) ==
    IF Len(v) = 1 THEN v[1]
    ELSE LET m == RatMax(Tail(v)) IN IF RatLt(m, v[1]) THEN v[1] ELSE m

RECURSIVE RatMin(_)
RatMin(v) ==
    IF Len(v) = 1 THEN v[1]
    ELSE LET m == RatMin(Tail(v)) IN IF RatLt(v[1], m) THEN v[1] ELSE m

\* (x - min) / (max - min) across the tickers, 0.5 everywhere when max = min
MinMax(v) ==
    LET hi == RatMax(v)
        lo == RatMin(v)
        span == RatSub(hi, lo)
    IN  IF hi = lo THEN Across([t \in 1..Len(v) |-> Rat(1, 2)], Len(v))
        ELSE Across([t \in 1..Len(v) |-> RatDiv(RatSub(v[t], lo), span)], Len(v))

weights == [M |-> Rat(3, 5), Vol |-> Rat(1, 4), Lq |-> Rat(3, 20)]

mom_score(k) == MinMax(Across([t \in tickers |-> fillna0(MOM(k, t))], Cardinality(tickers)))

vol_score(k) ==
    LET raw == Across([t \in tickers |-> fillna0(VOL(k, t))], Cardinality(tickers))
        norm == MinMax(raw)
    IN  IF RatMax(raw) = RatMin(raw) THEN norm
        ELSE Across([t \in 1..Len(raw) |-> RatSub(Rat(1, 1), norm[t])], Len(raw))

\* out.loc[date, pd.IndexSlice[:, column]]: the Series of one column of the row; the
\* selection keeps both levels of the column index, so the entry of ticker t is
\* labelled (t, column)
Labelled(v, column) == [l \in {<<t, column>> : t \in 1..Len(v)} |-> v[l[1]]]

\* weight * Series
Scaled(w, s) == [l \in DOMAIN s |-> IF isna(s[l]) THEN NaN ELSE RatMul(w, s[l])]

\* Series + Series: the operands are aligned on the union of their labels; a label that
\* one operand does not have gives NaN
SeriesAdd(a, b) ==
    [l \in DOMAIN a \cup DOMAIN b |->
        IF l \in DOMAIN a /\ l \in DOMAIN b /\ ~isna(a[l]) /\ ~isna(b[l])
        THEN RatAdd(a[l], b[l])
        ELSE NaN]

\* variant: the three scores are added ticker by ticker, whatever their column
sos_raw_by_ticker(k) ==
    LET ms == mom_score(k)
        vs == vol_score(k)
    IN  [l \in {<<t, "MOM">> : t \in 1..Len(ms)} |->
            RatAdd(RatAdd(RatMul(weights.M, ms[l[1]]), RatMul(weights.Vol, vs[l[1]])),
                   RatMul(weights.Lq, Rat(1, 2)))]

\* weights["M"] * mom_score + weights["Vol"] * vol_score + weights["Lq"] * lq_score,
\* where mom_score and lq_score carry the labels (t, "MOM") and vol_score the labels
\* (t, "VOL"); lq_score is the neutral 0.5
sos_raw(k) ==
    LET ms == Labelled(mom_score(k), "MOM")
        vs == Labelled(vol_score(k), "VOL")
        lq == [l \in DOMAIN ms |-> Rat(1, 2)]
    IN  SeriesAdd(SeriesAdd(Scaled(weights.M, ms), Scaled(weights.Vol, vs)),
                  Scaled(weights.Lq, lq))

\* the labels of a Series in the order of its index: a union of two indexes is sorted,
\* by ticker and then by column
RECURSIVE IndexOf(_)
IndexOf(L) ==
    IF L = {} THEN <<>>
    ELSE LET first == CHOOSE a \in L : \A b \in L :
                          \/ a[1] < b[1]
                          \/ (a[1] = b[1] /\ (a[2] = b[2] \/ a[2] = "MOM"))
         IN  <<first>> \o IndexOf(L \ {first})

\* the values of a Series in the order of its index
ValuesOf(raw, index) == [p \in DOMAIN index |-> raw[index[p]]]

\* Series.max() and Series.min() skip NaN and are NaN when there is nothing else
SeriesMax(values) ==
    LET present == SelectSeq(values, LAMBDA x : ~isna(x))
    IN  IF present = <<>> THEN NaN ELSE RatMax(present)

SeriesMin(values) ==
    LET present == SelectSeq(values, LAMBDA x : ~isna(x))
    IN  IF present = <<>> THEN NaN ELSE RatMin(present)

\* 0.5 everywhere if max == min (NaN == NaN is false), otherwise (x - min) / (max - min),
\* NaN where x, max or min is NaN
SeriesMinMax(values, hi, lo) ==
    IF ~isna(hi) /\ hi = lo THEN [p \in DOMAIN values |-> Rat(1, 2)]
    ELSE [p \in DOMAIN values |->
             IF isna(values[p]) \/ isna(hi) THEN NaN
             ELSE RatDiv(RatSub(values[p], lo), RatSub(hi, lo))]

\* sos_norm of the values of sos_raw
sos_norm_of(values) == SeriesMinMax(values, SeriesMax(values), SeriesMin(values))

\* the values of sos_raw, in the order of its index
sos_raw_values(raw) == ValuesOf(raw, IndexOf(DOMAIN raw))

\* sos_norm: 0.5 everywhere if sos_raw.max() == sos_raw.min(), otherwise
\* (sos_raw - sos_raw.min()) / (sos_raw.max() - sos_raw.min())
sos_norm(k) == sos_norm_of(sos_raw_values(sos_raw(k)))

\* the SOS column of row k: out.at[date, (t, "SOS")] = sos_norm.iloc[ticker_idx]
SOS(k) == [t \in tickers |-> sos_norm(k)[t]]

map_sos_to_rank(sos_value) ==
    LET r == 1 + RatFloor(RatMul(RatSub(Rat(1, 1), sos_value), Rat(8, 1)))
    IN  IF r < 1 THEN 1 ELSE IF r > 8 THEN 8 ELSE r

map_sos_to_file(sos_value_secondary) ==
    LET idx == RatFloor(RatMul(sos_value_secondary, Rat(8, 1)))
    IN  <<"A", "B", "C", "D", "E", "F", "G", "H">>[(IF idx < 0 THEN 0 ELSE IF idx > 7 THEN 7 ELSE idx) + 1]

map_sos_to_tile(sos_value) == << map_sos_to_rank(sos_value), map_sos_to_file(sos_value) >>

\* variant: a price equal to its moving average counts as white
Square_ge(k, t) == IF RatLe(MA(k, t), Rat(PriceAt(k, t), 1)) THEN "white" ELSE "black"

\* "white" if price > ma else "black"
Square(k, t) == IF RatLt(MA(k, t), Rat(PriceAt(k, t), 1)) THEN "white" ELSE "black"

(***************************************************************************)
(* run_backtest: the open-position map and the ledger.                     *)
(***************************************************************************)
Held(ps) == {ps[k].ticker : k \in DOMAIN ps}

\* positions[ticker]
PosOf(ps, ticker) == ps[CHOOSE k \in DOMAIN ps : ps[k].ticker = ticker]

\* positions.pop(ticker)
Pop(ps, ticker) == SelectSeq(ps, LAMBDA p : p.ticker # ticker)

\* positions[ticker] = pos: a new key goes last, an existing key keeps its place
Put(ps, pos) ==
    IF pos.ticker \in Held(ps)
    THEN [k \in DOMAIN ps |-> IF ps[k].ticker = pos.ticker THEN pos ELSE ps[k]]
    ELSE Append(ps, pos)

\* cfg["total_capital"], cfg["risk_level"] of the modelled run, and the risk allocation
total_capital == 130
risk_level == "Moderate"
risk_map == [High |-> Rat(1, 2), Moderate |-> Rat(3, 10), Low |-> Rat(1, 10)]
\* cfg["tickers"] of the main specification: NumTickers instruments
NumTickers == 2

\* the SELL record of a close (mandatory or end of simulation)
SellRecord(pos, exec_price, closed_date, reason) ==
    [ticker |-> pos.ticker, action |-> "SELL", price |-> exec_price, shares |-> pos.shares,
     value |-> exec_price * pos.shares, opened_date |-> pos.opened_date,
     closed_date |-> closed_date, reason |-> reason,
     initiated_on_square |-> pos.initiated_on_square, tactical |-> pos.tactical_black]

\* the BUY record of an opening; its opened_date is tomorrow's date
BuyRecord(ticker, entry_price, shares, tomorrow, square) ==
    [ticker |-> ticker, action |-> "BUY", price |-> entry_price, shares |-> shares,
     value |-> entry_price * shares, opened_date |-> tomorrow, closed_date |-> 0,
     reason |-> IF square = "white" THEN "deploy_on_white" ELSE "tactical_black_entry",
     initiated_on_square |-> square, tactical |-> square = "black"]

\* positions[ticker] = {...}; opened_date is today's date
NewPosition(ticker, entry_price, shares, today, piece, square) ==
    [ticker |-> ticker, shares |-> shares, avg_entry |-> entry_price, opened_date |-> today,
     piece_id |-> piece.id, piece_type |-> piece.type, initiated_on_square |-> square,
     tactical_black |-> square = "black", tactical_reclaimed |-> FALSE]

(***************************************************************************)
(* 1) Close phase: the check of the existing positions on day k.           *)
(***************************************************************************)
\* (pd.Timestamp(today) - pd.Timestamp(pos["opened_date"])).days
days_since(pos, k) == DateAt(k) - pos.opened_date

\* the reason a position is queued for on day k, "" when it is not queued
CloseReason(pos, k) ==
    IF PriceAt(k, pos.ticker) = 0 \/ isna(MA(k, pos.ticker)) THEN ""
    ELSE IF pos.tactical_black
         THEN IF Square(k, pos.ticker) = "white" THEN ""
              ELSE IF days_since(pos, k) >= reclaim_window /\ ~pos.tactical_reclaimed
                   THEN "tactical_reclaim_failed"
                   ELSE ""
         ELSE IF pos.initiated_on_square = "white" /\ Square(k, pos.ticker) = "black"
              THEN "black_flip_stoploss"
              ELSE ""

\* pos["tactical_reclaimed"] = True for a tactical position seen on a white square
MarkReclaimed(pos, k) ==
    IF /\ PriceAt(k, pos.ticker) # 0
       /\ ~isna(MA(k, pos.ticker))
       /\ pos.tactical_black
       /\ Square(k, pos.ticker) = "white"
    THEN [pos EXCEPT !.tactical_reclaimed = TRUE]
    ELSE pos

RECURSIVE QueueCloses(_, _)
QueueCloses(ps, k) ==
    IF ps = <<>> THEN <<>>
    ELSE (IF CloseReason(Head(ps), k) # ""
          THEN << <<Head(ps).ticker, CloseReason(Head(ps), k)>> >>
          ELSE <<>>) \o QueueCloses(Tail(ps), k)

(***************************************************************************)
(* 2) Open phase.                                                          *)
(***************************************************************************)
\* available_slots = max_positions - len(positions)
AvailableSlots(ps) == max_positions - Len(ps)

\* variant: an instrument without a score is a candidate with the score 0
Candidates_unscored_as_zero(ps, k) ==
    LET sos == SOS(k)
    IN  { <<fillna0(sos[t]), t, Square(k, t)>> :
            t \in {u \in tickers : /\ u \notin Held(ps)
                                   /\ PriceAt(k, u) # 0
                                   /\ ~isna(MA(k, u))} }

\* cand: (sos, ticker, square) of every ticker not held with price, MA and SOS today
Candidates(ps, k) ==
    LET sos == SOS(k)
    IN  { <<sos[t], t, Square(k, t)>> :
            t \in {u \in tickers : /\ u \notin Held(ps)
                                   /\ PriceAt(k, u) # 0
                                   /\ ~isna(MA(k, u))
                                   /\ ~isna(sos[u])} }

\* sorted(cand, key=lambda x: (-x[0], x[1]))
RECURSIVE SortCand(_)
SortCand(S) ==
    IF S = {} THEN <<>>
    ELSE LET first == CHOOSE c \in S : \A d \in S :
                          \/ RatLt(d[1], c[1])
                          \/ (d[1] = c[1] /\ c[2] <= d[2])
         IN  <<first>> \o SortCand(S \ {first})

\* int(piece["value"] // entry_price)
Shares(value, entry_price) == RatFloor(RatDiv(value, Rat(entry_price, 1)))

\* One pass of the body of "for sos_val, ticker, square in cand_sorted" with slots left.
\* st = [positions, pieces, trades, available_slots]; next_prices is tomorrow's row.
OpenStep(st, c, next_prices, today, tomorrow) ==
    LET sos_val == c[1]
        ticker == c[2]
        square == c[3]
        rank == map_sos_to_tile(sos_val)[1]
        piece == IF square = "white" THEN get_best_piece_for_rank(st.pieces, rank)
                 ELSE get_tactical_piece(st.pieces)
        entry_price == IF ticker \in DOMAIN next_prices THEN next_prices[ticker] ELSE 0
    IN  IF piece = None THEN st
        ELSE IF entry_price <= 0 THEN st
        ELSE IF Shares(st.pieces[piece].value, entry_price) <= 0 THEN st
        ELSE LET shares == Shares(st.pieces[piece].value, entry_price)
             IN  [positions |-> Put(st.positions,
                                    NewPosition(ticker, entry_price, shares, today,
                                                st.pieces[piece], square)),
                  pieces |-> assign_piece(st.pieces, st.pieces[piece].id),
                  trades |-> Append(st.trades,
                                    BuyRecord(ticker, entry_price, shares, tomorrow, square)),
                  available_slots |-> st.available_slots - 1]

\* the whole walk of the sorted candidates, stopping when no slot is left
RECURSIVE OpenWalk(_, _, _, _, _)
OpenWalk(st, cs, next_prices, today, tomorrow) ==
    IF cs = <<>> \/ st.available_slots <= 0 THEN st
    ELSE OpenWalk(OpenStep(st, Head(cs), next_prices, today, tomorrow), Tail(cs),
                  next_prices, today, tomorrow)

(***************************************************************************)
(* run_backtest as a state machine.  pc: "start" (before the length check),*)
(* "loop" (head of the for loop, rows 0..i read), "done", "error".  One    *)
(* step of the loop is one whole iteration: the check of the positions,    *)
(* the queued closes, and the walk of the candidates.                      *)
(***************************************************************************)
AllRows == [tickers -> 1..MaxPrice]

InitPoolIdle ==
    /\ impl = "single_file"
    /\ fw_pieces = <<>>
    /\ acquired = [op |-> "none", ret |-> None]
    /\ released = [unit |-> None, phase |-> "none", before |-> 0, after |-> 0]
    /\ call = [op |-> "none"]

UniformRowsOf(T) == {[t \in T |-> p] : p \in 1..MaxPrice}

\* run_backtest up to the length check: configuration, pool, and the rows 0..ma_period
\* of the panel.  In the rows before the first decision day (the warm-up of the moving
\* average) every instrument has the same price; from the first decision day on the
\* rows are drawn from `rows`.
InitRun(T, maxpos, reclaim, rows) ==
    /\ tickers = T
    /\ max_positions \in maxpos
    /\ reclaim_window \in reclaim
    /\ momentum_capital = RatMul(Rat(total_capital, 1), risk_map[risk_level])
    /\ pieces = build_pieces(momentum_capital)
    /\ \E warm \in [1..MaPeriod -> UniformRowsOf(T)], today \in rows :
          price_panel = Append(warm, today)
    /\ dates = [k \in 1..(MaPeriod + 1) |-> k]
    /\ i = MaPeriod
    /\ pc = "start"
    /\ positions = <<>>
    /\ to_close = <<>>
    /\ cand_sorted = <<>>
    /\ available_slots = 0
    /\ trades = <<>>
    /\ InitPoolIdle

\* variant: the length check is off by one row
not_enough_data_lenient(n) == n < MaPeriod + 1

\* len(dates) < ma_period + 2
not_enough_data(n) == n < MaPeriod + 2

\* if len(dates) < ma_period + 2: raise RuntimeError.  The panel ends with the rows
\* read so far.
TooShort ==
    /\ pc = "start"
    /\ not_enough_data(Len(dates))
    /\ pc' = "error"
    /\ UNCHANGED << tickers, max_positions, reclaim_window, dates, price_panel, i,
                    positions, to_close, cand_sorted, available_slots, trades >>
    /\ UNCHANGED poolvars
    /\ UNCHANGED call

\* The length check is passed and rows 0..ma_period, which the first iteration reads,
\* are there.
EnterLoop ==
    /\ pc = "start"
    /\ Len(dates) = MaPeriod + 1
    /\ pc' = "loop"
    /\ UNCHANGED << tickers, max_positions, reclaim_window, dates, price_panel, i,
                    positions, to_close, cand_sorted, available_slots, trades >>
    /\ UNCHANGED poolvars
    /\ UNCHANGED call

\* for ticker, reason in to_close: execute at next_prices.  st = [positions, pieces,
\* trades]
RECURSIVE CloseWalk(_, _, _, _)
CloseWalk(st, queue, next_prices, tomorrow) ==
    IF queue = <<>> THEN st
    ELSE LET ticker == Head(queue)[1]
             reason == Head(queue)[2]
             exec_price == IF ticker \in DOMAIN next_prices THEN next_prices[ticker] ELSE 0
             pos == PosOf(st.positions, ticker)
         IN  CloseWalk(IF ticker \notin Held(st.positions) \/ exec_price = 0 THEN st
                       ELSE [positions |-> Pop(st.positions, ticker),
                             pieces |-> recycle_piece(st.pieces, pos.piece_id),
                             trades |-> Append(st.trades,
                                               SellRecord(pos, exec_price, tomorrow, reason))],
                       Tail(queue), next_prices, tomorrow)

\* One iteration of "for i in range(ma_period, len(dates)-1)": row i+1 exists (it is
\* read now, gap calendar days after row i); the positions are checked against today's
\* row i, the queued closes are executed at row i+1, and the candidates are walked.
LoopBody(rows, gaps, maxrows) ==
    /\ pc = "loop"
    /\ i + 2 <= maxrows
    /\ \E row \in rows, gap \in gaps :
          LET today == DateAt(i)
              tomorrow == DateAt(i) + gap
              checked == [k \in DOMAIN positions |-> MarkReclaimed(positions[k], i)]
              queue == QueueCloses(positions, i)
          IN  \E closed \in {CloseWalk([positions |-> checked, pieces |-> pieces,
                                        trades |-> trades], queue, row, tomorrow)} :
              \E cand \in {IF AvailableSlots(closed.positions) > 0
                           THEN Candidates(closed.positions, i) ELSE {}} :
              \E opened \in {OpenWalk([positions |-> closed.positions,
                                       pieces |-> closed.pieces, trades |-> closed.trades,
                                       available_slots |-> AvailableSlots(closed.positions)],
                                      SortCand(cand), row, today, tomorrow)} :
                  /\ price_panel' = Append(price_panel, row)
                  /\ dates' = Append(dates, tomorrow)
                  /\ to_close' = queue
                  /\ cand_sorted' = IF cand # {} THEN SortCand(cand) ELSE cand_sorted
                  /\ available_slots' = opened.available_slots
                  /\ positions' = opened.positions
                  /\ pieces' = opened.pieces
                  /\ trades' = opened.trades
    /\ i' = i + 1
    /\ UNCHANGED << tickers, max_positions, reclaim_window, pc >>
    /\ UNCHANGED << impl, momentum_capital, fw_pieces, acquired, released >>
    /\ UNCHANGED call

\* for ticker, pos in list(positions.items()): every remaining position, in order
FinalQueue(ps) == [k \in DOMAIN ps |-> <<ps[k].ticker, "end_of_sim">>]

\* Close any remaining positions at last price.  st = [positions, pieces, trades]
RECURSIVE FinalWalk(_, _, _, _)
FinalWalk(st, queue, last_prices, last_date) ==
    IF queue = <<>> THEN st
    ELSE LET ticker == Head(queue)[1]
             exec_price == IF ticker \in DOMAIN last_prices THEN last_prices[ticker] ELSE 0
             pos == PosOf(st.positions, ticker)
         IN  FinalWalk(IF exec_price = 0 THEN st
                       ELSE [positions |-> Pop(st.positions, ticker),
                             pieces |-> recycle_piece(st.pieces, pos.piece_id),
                             trades |-> Append(st.trades,
                                               SellRecord(pos, exec_price, last_date,
                                                          Head(queue)[2]))],
                       Tail(queue), last_prices, last_date)

\* range(ma_period, len(dates)-1) is exhausted: row i is the last row of the panel
\* (a panel of this length has passed the length check), and what is still open is
\* closed at the last price.
EndLoop ==
    /\ pc = "loop"
    /\ Len(dates) = i + 1
    /\ ~not_enough_data(Len(dates))
    /\ LET final == FinalWalk([positions |-> positions, pieces |-> pieces,
                               trades |-> trades],
                              FinalQueue(positions), price_panel[i + 1], DateAt(i))
       IN  /\ positions' = final.positions
           /\ pieces' = final.pieces
           /\ trades' = final.trades
    /\ pc' = "done"
    /\ UNCHANGED << tickers, max_positions, reclaim_window, dates, price_panel, i,
                    to_close, cand_sorted, available_slots >>
    /\ UNCHANGED << impl, momentum_capital, fw_pieces, acquired, released >>
    /\ UNCHANGED call

RunStep ==
    \/ TooShort
    \/ EnterLoop
    \/ EndLoop

(***************************************************************************)
(* Main specification: two instruments, consecutive calendar days.         *)
(***************************************************************************)
Init == InitRun(1..NumTickers, 1..MaxMaxPositions, 1..MaxReclaim, [1..NumTickers -> 1..MaxPrice])

Next == RunStep \/ LoopBody(AllRows, {1}, NumDates)

Spec == Init /\ [][Next]_vars

(***************************************************************************)
(* Properties of the main specification.                                   *)
(***************************************************************************)
\* the instruments of the records appended by the step, by action
Appended(action) ==
    {trades'[n].ticker : n \in {m \in (Len(trades) + 1)..Len(trades') :
                                   trades'[m].action = action}}

\* the instruments the candidate filter passes over on day k: no price, no moving
\* average or no score
Unscored(k) ==
    {t \in tickers : PriceAt(k, t) = 0 \/ isna(MA(k, t)) \/ isna(sos_norm(k)[t])}

\* C11: an instrument that is passed over on a day changes nothing on that day: it gets
\* no record and no position, the slot count goes down by the openings alone, without
\* an opening the positions and the pool are what the closes left, and the run goes on.
C11_SkipChangesNothing ==
    [][(pc = "loop" /\ i' = i + 1) =>
          /\ Unscored(i) \cap Appended("BUY") = {}
          /\ \A t \in Unscored(i) : t \in Held(positions') => t \in Held(positions)
          /\ available_slots' = max_positions
                                - (Len(positions) - Cardinality(Appended("SELL")))
                                - Cardinality(Appended("BUY"))
          /\ Appended("BUY") = {} =>
                /\ Len(positions') = Len(positions) - Cardinality(Appended("SELL"))
                /\ Cardinality({k \in DOMAIN pieces' : pieces'[k].assigned}) =
                       Cardinality({k \in DOMAIN pieces : pieces[k].assigned})
                       - Cardinality(Appended("SELL"))
          /\ pc' = "loop"]_vars

\* a decision day is over on which an instrument with a price and a moving average was
\* passed over for its missing score, with every slot free and every unit unassigned
C11_Witness ==
    /\ pc = "loop"
    /\ i > MaPeriod
    /\ \E t \in tickers :
          /\ PriceAt(i - 1, t) # 0
          /\ ~isna(MA(i - 1, t))
          /\ isna(SOS(i - 1)[t])
    /\ available_slots = max_positions
    /\ positions = <<>>
    /\ trades = <<>>
    /\ \A k \in DOMAIN pieces : ~pieces[k].assigned

\* C13: a run with an invalid configuration (instrument count outside 3..10, capital
\* or window not positive) never gets past its start: it does not enter the loop and
\* has no trade record and no position.
C13_InvalidConfigRejected ==
    (\/ Cardinality(tickers) \notin 3..10
     \/ total_capital <= 0
     \/ MaPeriod <= 0)
    => /\ pc \in {"start", "error"}
       /\ trades = <<>>
       /\ positions = <<>>

\* get_current_board_state: the instruments that get a tile on row k, all but those
\* whose SOS is NaN
board_state_tiles(k) == {t \in tickers : ~isna(SOS(k)[t])}

\* C14: on every row with fewer than ma_period observations up to it, the score of
\* every instrument is undefined (NaN), and the board state of that row has no tile.
C14_WarmupScoreUndefined ==
    \A k \in 0..(Len(dates) - 1) :
        k < MaPeriod - 1 => /\ \A t \in tickers : isna(SOS(k)[t])
                            /\ board_state_tiles(k) = {}

\* the score frame of a run has been computed: its first row has one observation, no
\* moving average and no score
C14_Witness ==
    /\ pc = "loop"
    /\ \A t \in tickers : isna(MA(0, t)) /\ isna(SOS(0)[t])
    /\ board_state_tiles(0) = {}

\* on every row read so far where the moving average is defined, every instrument's
\* price equals its moving average
PriceEqualsMA ==
    \A k \in (MaPeriod - 1)..(Len(dates) - 1) : \A t \in tickers :
        MA(k, t) = Rat(PriceAt(k, t), 1)

\* C15: when every price equals its own moving average on every day, every instrument
\* is on a black square on every decision day, every momentum score is 0.5, and every
\* BUY record is a tactical opening made on a black square.
C15_FlatPricesOnlyTactical ==
    PriceEqualsMA =>
        /\ \A k \in MaPeriod..(Len(dates) - 1) : \A t \in tickers :
              /\ Square(k, t) = "black"
              /\ mom_score(k)[t] = Rat(1, 2)
        /\ \A n \in DOMAIN trades :
              trades[n].action = "BUY" =>
                  /\ trades[n].tactical
                  /\ trades[n].initiated_on_square = "black"
                  /\ trades[n].reason = "tactical_black_entry"

\* a run over a panel of equal prices has ended after two decision days
C15_Witness ==
    /\ PriceEqualsMA
    /\ pc = "done"
    /\ i = MaPeriod + 2

\* the normalised values ret of the raw values raw of one date: 0.5 for every
\* instrument when the raw values are all equal; otherwise within [0,1], the smallest
\* exactly 0 and the largest exactly 1
Normalised(raw, ret) ==
    /\ DOMAIN ret = DOMAIN raw
    /\ \A t \in DOMAIN ret : ~isna(ret[t])
    /\ IF \A a \in DOMAIN raw, b \in DOMAIN raw : raw[a] = raw[b]
       THEN \A t \in DOMAIN ret : ret[t] = Rat(1, 2)
       ELSE /\ \A t \in DOMAIN ret : RatLe(Rat(0, 1), ret[t]) /\ RatLe(ret[t], Rat(1, 1))
            /\ \E t \in DOMAIN ret : ret[t] = Rat(0, 1)
            /\ \E t \in DOMAIN ret : ret[t] = Rat(1, 1)

\* a final score of one date: a number for every instrument, 0.5 for every instrument
\* or within [0,1] with the smallest exactly 0 and the largest exactly 1
InRange(ret) ==
    /\ \A t \in DOMAIN ret : ~isna(ret[t])
    /\ \/ \A t \in DOMAIN ret : ret[t] = Rat(1, 2)
       \/ /\ \A t \in DOMAIN ret : RatLe(Rat(0, 1), ret[t]) /\ RatLe(ret[t], Rat(1, 1))
          /\ \E t \in DOMAIN ret : ret[t] = Rat(0, 1)
          /\ \E t \in DOMAIN ret : ret[t] = Rat(1, 1)

\* C20: on every date the normalised momentum of the instruments is 0.5 for every
\* instrument when the raw values are all equal and otherwise lies in [0,1] with the
\* smallest exactly 0 and the largest exactly 1, and the final score (the normalised
\* weighted sum) is in that range too.
C20_MinMaxRange ==
    pc = "loop" => \A k \in 0..(Len(dates) - 1) :
        /\ Normalised(Across([t \in tickers |-> fillna0(MOM(k, t))], Cardinality(tickers)),
                      mom_score(k))
        /\ InRange(SOS(k))

\* the rows that "for i in range(ma_period, len(dates)-1)" has entered so far
DecisionRows == MaPeriod..(i - 1)

\* C28: when the loop is over, the rows that had a decision iteration are exactly the
\* rows from the first one with a defined moving average through the second-to-last one.
C28_DecisionDaysCoverDefinedAverage ==
    pc = "done" =>
        DecisionRows = {k \in 0..(Len(dates) - 2) : \A t \in tickers : ~isna(MA(k, t))}

\* a row of the two-instrument panel
ReentryRow(a, b) == [t \in 1..NumTickers |-> IF t = 1 THEN a ELSE b]

\* C32: an instrument sold in the close phase of a day is a candidate of the open phase
\* of the same day and its unit is free again, so a ledger can hold a SELL and, after
\* it, a BUY of the same instrument with the same date and price: the run with two slots
\* over the panel in which instrument 1 is above its moving average on the first
\* decision day and below it on the second has such a pair when it ends.
C32_SoldIsCandidateSameDay ==
    (/\ pc = "done"
     /\ max_positions = 2
     /\ price_panel = <<ReentryRow(1, 1), ReentryRow(1, 1), ReentryRow(2, 1),
                        ReentryRow(1, 1), ReentryRow(1, 1)>>)
    => \E n, m \in DOMAIN trades :
          /\ n < m
          /\ trades[n].action = "SELL"
          /\ trades[m].action = "BUY"
          /\ trades[n].ticker = trades[m].ticker
          /\ trades[n].closed_date = trades[m].opened_date
          /\ trades[n].price = trades[m].price


(***************************************************************************)
(* Panels of every length: one instrument, and a cleaned panel that may    *)
(* have fewer rows than the first iteration reads.                         *)
(***************************************************************************)
ShortPanels == UNION {[1..n -> UniformRowsOf({1})] : n \in 0..MaPeriod}

InitShort ==
    \/ InitRun({1}, {1}, {1}, [{1} -> 1..MaxPrice])
    \/ /\ tickers = {1}
       /\ max_positions = 1
       /\ reclaim_window = 1
       /\ momentum_capital = RatMul(Rat(total_capital, 1), risk_map[risk_level])
       /\ pieces = build_pieces(momentum_capital)
       /\ price_panel \in ShortPanels
       /\ dates = [k \in 1..Len(price_panel) |-> k]
       /\ i = MaPeriod
       /\ pc = "start"
       /\ positions = <<>>
       /\ to_close = <<>>
       /\ cand_sorted = <<>>
       /\ available_slots = 0
       /\ trades = <<>>
       /\ InitPoolIdle

NextShort == RunStep \/ LoopBody(AllRows, {1}, NumDates)

SpecShort == InitShort /\ [][NextShort]_vars

\* iterations of the loop completed so far
DecisionDays == i - MaPeriod

\* C12: a run that ends with fewer than window+2 rows ends in the error, before the
\* first iteration, with an empty ledger, no position and no unit assigned; a run that
\* completes has at least window+2 rows and has made one decision per row beyond the
\* first window+1, so exactly one with window+2 rows.
C12_FailFastOnShortHistory ==
    /\ (pc = "error" =>
            /\ not_enough_data(Len(dates))
            /\ DecisionDays = 0
            /\ trades = <<>>
            /\ positions = <<>>
            /\ \A k \in DOMAIN pieces : ~pieces[k].assigned)
    /\ (Len(dates) < MaPeriod + 2 => pc \in {"start", "error", "loop"} /\ trades = <<>>)
    /\ (Len(dates) < MaPeriod + 1 => pc \in {"start", "error"})
    /\ (pc = "done" =>
            /\ Len(dates) >= MaPeriod + 2
            /\ DecisionDays = Len(dates) - (MaPeriod + 1))

C12_Witness == pc = "error" /\ Len(dates) = MaPeriod + 1

(***************************************************************************)
(* Pool specification: a pool of either class, constructed from a          *)
(* sub-budget, under its operations in any order.                          *)
(***************************************************************************)
\* sub-budgets: whole amounts and fractions of them, and the amount of the 3900 scenario
SampleCapitals == {3900}
Capitals == {Rat(c, d) : c \in (1..MaxCapital) \cup SampleCapitals, d \in 1..(MaxCapital + 1)}

\* no backtest is running
InitRunIdle ==
    /\ tickers = {}
    /\ max_positions = 0
    /\ reclaim_window = 0
    /\ dates = <<>>
    /\ price_panel = <<>>
    /\ i = 0
    /\ pc = "pool"
    /\ positions = <<>>
    /\ to_close = <<>>
    /\ cand_sorted = <<>>
    /\ available_slots = 0
    /\ trades = <<>>

\* PieceInventory(momentum_capital) of the class impl
InitPoolOf(impls, capitals) ==
    /\ impl \in impls
    /\ momentum_capital \in capitals
    /\ pieces = IF impl = "single_file" THEN build_pieces(momentum_capital) ELSE <<>>
    /\ fw_pieces = IF impl = "framework" THEN fw_build_pieces(momentum_capital) ELSE <<>>
    /\ acquired = [op |-> "none", ret |-> None]
    /\ released = [unit |-> None, phase |-> "none", before |-> 0, after |-> 0]
    /\ call = [op |-> "none"]
    /\ InitRunIdle

\* the pool under test, whichever class it is
Units == IF impl = "framework" THEN fw_pieces ELSE pieces
PointValue(k) == IF impl = "framework" THEN fw_pieces[k].point_value ELSE pieces[k].PV
MonetaryValue(k) == IF impl = "framework" THEN fw_pieces[k].monetary_value ELSE pieces[k].value
Assigned == {k \in DOMAIN Units : Units[k].assigned}
Unassigned == DOMAIN Units \ Assigned

BestForRank(rank) ==
    IF impl = "framework" THEN fw_get_best_piece_for_rank(fw_pieces, rank)
    ELSE get_best_piece_for_rank(pieces, rank)

Tactical ==
    IF impl = "framework" THEN fw_get_tactical_piece(fw_pieces)
    ELSE get_tactical_piece(pieces)

\* inventory.get_best_piece_for_rank(rank)
AcquireForRank(rank) ==
    /\ pc = "pool"
    /\ acquired' = [op |-> "rank", ret |-> BestForRank(rank)]
    /\ UNCHANGED << impl, momentum_capital, fw_pieces, pieces, released >>
    /\ UNCHANGED runvars
    /\ UNCHANGED call

\* inventory.get_tactical_piece()
AcquireTactical ==
    /\ pc = "pool"
    /\ acquired' = [op |-> "tactical", ret |-> Tactical]
    /\ UNCHANGED << impl, momentum_capital, fw_pieces, pieces, released >>
    /\ UNCHANGED runvars
    /\ UNCHANGED call

\* inventory.assign_piece(piece id) of the unit k.  The callers that acquire first
\* (run_backtest, the web deployment) pass the unit just acquired; the command-line
\* deployment passes the first unassigned unit of the type named, and the function takes
\* any id.  A unit other than the one acquired is assigned while fewer than MaxHeld
\* units are assigned.
AssignPiece(k) ==
    /\ pc = "pool"
    /\ k \in DOMAIN Units
    /\ k = acquired.ret \/ Cardinality(Assigned) < MaxHeld
    /\ IF impl = "framework"
       THEN /\ fw_pieces' = fw_assign_piece(fw_pieces, fw_pieces[k].piece_id)
            /\ UNCHANGED pieces
       ELSE /\ pieces' = assign_piece(pieces, pieces[k].id)
            /\ UNCHANGED fw_pieces
    /\ acquired' = [op |-> "none", ret |-> None]
    /\ UNCHANGED << impl, momentum_capital, released >>
    /\ UNCHANGED runvars
    /\ UNCHANGED call

\* inventory.unassign_piece(piece id) / inventory.recycle_piece(piece id) of unit k
Release(k) ==
    /\ pc = "pool"
    /\ k \in Assigned
    /\ Cardinality(Assigned) <= MaxHeld
    /\ IF impl = "framework"
       THEN /\ fw_pieces' = unassign_piece(fw_pieces, fw_pieces[k].piece_id)
            /\ UNCHANGED pieces
       ELSE /\ pieces' = recycle_piece(pieces, pieces[k].id)
            /\ UNCHANGED fw_pieces
    /\ acquired' = [op |-> "none", ret |-> None]
    /\ UNCHANGED << impl, momentum_capital, released >>
    /\ UNCHANGED runvars
    /\ UNCHANGED call

\* PieceInventory(momentum_capital): the caller replaces its pool by a new one of the
\* same class (chess_web_gui initialize() builds a new trader; every run_backtest builds
\* its own pool)
Construct(capital) ==
    /\ pc = "pool"
    /\ momentum_capital' = capital
    /\ IF impl = "framework"
       THEN /\ fw_pieces' = fw_build_pieces(capital)
            /\ UNCHANGED pieces
       ELSE /\ pieces' = build_pieces(capital)
            /\ UNCHANGED fw_pieces
    /\ acquired' = [op |-> "none", ret |-> None]
    /\ UNCHANGED << impl, released >>
    /\ UNCHANGED runvars
    /\ UNCHANGED call

InitPool == InitPoolOf({"framework", "single_file"}, Capitals)

NextPool ==
    \/ \E rank \in 1..8 : AcquireForRank(rank)
    \/ AcquireTactical
    \/ \E k \in 1..15 : AssignPiece(k)
    \/ \E k \in 1..15 : Release(k)
    \/ \E capital \in Capitals : Construct(capital)

SpecPool == InitPool /\ [][NextPool]_vars

RECURSIVE RatSeqSum(_)
RatSeqSum(s) == IF s = <<>> THEN Rat(0, 1) ELSE RatAdd(Head(s), RatSeqSum(Tail(s)))

\* C4: a pool constructed from any sub-budget holds 15 units with point values 9, 5, 5,
\* 3, 3, 3, 3 and eight 1s, each valued point value x sub-budget / 39, and whatever has
\* been acquired, assigned and released the unit values add up to the sub-budget; the
\* sub-budget 3900 gives 900, 500, 500, 300, 300, 300, 300 and eight times 100.
C4_PoolValues ==
    /\ Len(Units) = 15
    /\ [k \in 1..15 |-> PointValue(k)] = <<9, 5, 5, 3, 3, 3, 3, 1, 1, 1, 1, 1, 1, 1, 1>>
    /\ \A k \in 1..15 :
          MonetaryValue(k) = Rat(PointValue(k) * momentum_capital[1], 39 * momentum_capital[2])
    /\ RatSeqSum([k \in 1..15 |-> MonetaryValue(k)]) = momentum_capital
    /\ momentum_capital = Rat(3900, 1) =>
          [k \in 1..15 |-> MonetaryValue(k)] =
              [k \in 1..15 |->
                  Rat(<<900, 500, 500, 300, 300, 300, 300,
                        100, 100, 100, 100, 100, 100, 100, 100>>[k], 1)]

\* the pool of 3900 after units were assigned and one of them released again
C4_Witness ==
    /\ pc = "pool"
    /\ momentum_capital = Rat(3900, 1)
    /\ 1 \in Unassigned
    /\ 2 \in Assigned
    /\ 8 \in Assigned

\* C8: in every pool state and for every rank 1..8, get_best_piece_for_rank returns an
\* unassigned unit of the largest point value among the unassigned ones, the same unit
\* for every rank, and None exactly when no unit is unassigned; the call leaves every
\* unit's assignment as it was.
C8_AcquireForRank ==
    /\ [](pc = "pool" =>
            /\ \A rank \in 1..8 :
                  LET r == BestForRank(rank)
                  IN  /\ (r = None) <=> (Unassigned = {})
                      /\ r # None =>
                            /\ r \in Unassigned
                            /\ \A j \in Unassigned : PointValue(j) <= PointValue(r)
                      /\ r = BestForRank(1)
            /\ acquired.op = "rank" =>
                  (acquired.ret = None) <=> (Unassigned = {}))
    /\ [][acquired'.op = "rank" => Units' = Units]_vars

\* the call returned a Rook while the Queen and a Pawn are assigned
C8_Witness ==
    /\ acquired.op = "rank"
    /\ acquired.ret # None
    /\ PointValue(acquired.ret) = 5
    /\ 1 \in Assigned
    /\ 8 \in Assigned

\* C7: the unit the tactical acquire of the backtest's pool returns is a Pawn or a
\* Knight, and it returns None exactly when no Pawn and no Knight is unassigned, so that
\* a unit of a larger class never backs a tactical position.
C7_TacticalSmallUnits ==
    (impl = "single_file" /\ acquired.op = "tactical") =>
        /\ acquired.ret # None => pieces[acquired.ret].type \in {"Pawn", "Knight"}
        /\ (acquired.ret = None) <=>
               (\A k \in Unassigned : pieces[k].type \notin {"Pawn", "Knight"})


(***************************************************************************)
(* chess_framework: the board, TradingRulesEngine and SOSScorer's maps,    *)
(* applied once to arguments drawn from small sets.  The variable call   *)
(* holds the function applied, its arguments and what it returned.         *)
(***************************************************************************)
\* days_held ranges over 0..MaxDaysHeld
MaxDaysHeld == 2

\* class RiskLevel: the allocation of each level
RiskLevel == [HIGH |-> Rat(1, 2), MODERATE |-> Rat(3, 10), LOW |-> Rat(1, 10)]

\* variant: the rank is not clamped to 1..8
sos_to_rank_unclamped(sos_value) ==
    1 + RatFloor(RatMul(RatSub(Rat(1, 1), sos_value), Rat(8, 1)))

\* SOSScorer.sos_to_rank
sos_to_rank(sos_value) ==
    LET rank == 1 + RatFloor(RatMul(RatSub(Rat(1, 1), sos_value), Rat(8, 1)))
    IN  IF rank > 8 THEN 8 ELSE IF rank < 1 THEN 1 ELSE rank

\* variant: the files are counted from H down
sos_to_file_from_H(sos_value_secondary) ==
    LET idx == RatFloor(RatMul(sos_value_secondary, Rat(8, 1)))
    IN  <<"H", "G", "F", "E", "D", "C", "B", "A">>[(IF idx > 7 THEN 7 ELSE IF idx < 0 THEN 0 ELSE idx) + 1]

\* SOSScorer.sos_to_file
sos_to_file(sos_value_secondary) ==
    LET idx == RatFloor(RatMul(sos_value_secondary, Rat(8, 1)))
    IN  <<"A", "B", "C", "D", "E", "F", "G", "H">>[(IF idx > 7 THEN 7 ELSE IF idx < 0 THEN 0 ELSE idx) + 1]

\* SOSScorer.sos_to_position: the rank and the file of a BoardPosition
sos_to_position(sos_value) == << sos_to_rank(sos_value), sos_to_file(sos_value) >>

\* ChessBoard.update_stock: the StockTile of a ticker
StockTile(ticker, price, ma, sos_score) ==
    [ticker |-> ticker, current_price |-> price, moving_average |-> ma,
     sos_score |-> sos_score,
     square_color |-> IF price > ma THEN "white" ELSE "black",
     rank |-> sos_to_rank(sos_score), file |-> sos_to_file(sos_score)]

\* TradingRulesEngine.check_retreat_required: (required, reason)
check_retreat_required(piece, tile, days_held) ==
    IF piece.entry_square = "white" /\ tile.square_color = "black"
    THEN <<TRUE, "White->Black flip: MANDATORY RETREAT">>
    ELSE IF piece.tactical_black /\ days_held > piece.tactical_reclaim_window
    THEN <<TRUE, "Tactical Black: Failed to reclaim White within "
                 \o ToString(piece.tactical_reclaim_window) \o " days">>
    ELSE <<FALSE, "">>

\* the scores a tile is built from
SosSamples == {Rat(0, 1), Rat(1, 2), Rat(1, 1)}

\* tiles of one ticker: price 1 or 2 against a moving average of 1
Tiles(ticker) == {StockTile(ticker, p, 1, s) : p \in 1..2, s \in SosSamples}

\* a pool unit with the position fields a caller has written on it: a unit entered on
\* a black square is tactical and has a reclaim window
HeldPieces ==
    LET ps == fw_pieces
    IN  {[ps[k] EXCEPT !.assigned = TRUE, !.entry_price = e, !.entry_square = sq,
                       !.shares = 1, !.tactical_black = (sq = "black"),
                       !.tactical_reclaim_window = IF sq = "black" THEN w ELSE 0] :
            k \in {1, Len(ps) - 1, Len(ps)}, e \in 1..2, sq \in {"white", "black"},
            w \in 1..MaxReclaim}

\* Piece.gain_loss_pct(current_price), in percent
gain_loss_pct(piece, current_price) ==
    IF piece.entry_price # 0 /\ piece.entry_price > 0
    THEN RatMul(Rat(current_price - piece.entry_price, piece.entry_price), Rat(100, 1))
    ELSE Rat(0, 1)

\* variant: any unit may open on a white square
can_deploy_on_white_any_unit(tile, piece) == tile.square_color = "white"

\* TradingRulesEngine.can_deploy_on_white: the flag of the returned pair
can_deploy_on_white(tile, piece) ==
    IF tile.square_color # "white" THEN FALSE
    ELSE IF tile.rank <= 2 THEN ~(piece.point_value < 1)
    ELSE IF tile.rank <= 4 THEN ~(piece.point_value < 3)
    ELSE IF tile.rank <= 6 THEN ~(piece.point_value < 5)
    ELSE ~(piece.point_value < 9)

\* TradingRulesEngine.can_deploy_tactical_black: the flag of the returned pair
can_deploy_tactical_black(tile, piece) ==
    IF tile.square_color # "black" THEN FALSE
    ELSE piece.piece_type \in {PieceType("PAWN"), PieceType("KNIGHT")}

\* TradingRulesEngine.check_scaling_opportunity: whether a hint is returned
check_scaling_opportunity(piece, tile) ==
    IF tile.square_color # "white" THEN FALSE
    ELSE IF tile.rank < 5 THEN FALSE
    ELSE IF piece.point_value >= 5 THEN FALSE
    ELSE TRUE

\* TradingRulesEngine.check_profit_taking: whether a hint is returned
check_profit_taking(piece, tile, gain_pct) ==
    IF tile.rank < 7 THEN FALSE
    ELSE IF RatLe(gain_pct, Rat(0, 1)) THEN FALSE
    ELSE TRUE

\* MoveSuggestionEngine._analyze_existing_position: the advice list
analyze_existing_position(piece, tile) ==
    LET gain_pct == IF piece.entry_price # 0 THEN gain_loss_pct(piece, tile.current_price)
                    ELSE Rat(0, 1)
        retreat == IF check_retreat_required(piece, tile, 0)[1]
                   THEN << [action |-> "RETREAT", ticker |-> tile.ticker,
                            priority_score |-> Rat(100, 1)] >>
                   ELSE <<>>
        capture == IF check_profit_taking(piece, tile, gain_pct)
                   THEN << [action |-> "CAPTURE", ticker |-> tile.ticker,
                            priority_score |-> RatAdd(Rat(80, 1), gain_pct)] >>
                   ELSE <<>>
        advance == IF check_scaling_opportunity(piece, tile)
                   THEN << [action |-> "ADVANCEMENT", ticker |-> tile.ticker,
                            priority_score |-> RatAdd(Rat(60, 1),
                                                      RatMul(tile.sos_score, Rat(20, 1)))] >>
                   ELSE <<>>
    IN  retreat \o capture \o advance

\* MoveSuggestionEngine._analyze_deployment_opportunity: the advice list
analyze_deployment_opportunity(tile, inventory, game_state) ==
    LET piece == fw_get_best_piece_for_rank(inventory, tile.rank)
        tactical_piece == fw_get_tactical_piece(inventory)
        white == IF /\ piece # None
                    /\ tile.square_color = "white"
                    /\ can_deploy_on_white(tile, inventory[piece])
                    /\ RatLt(Rat(game_state.pieces_deployed, 1),
                             RatDiv(game_state.king_cash, inventory[piece].monetary_value))
                 THEN << [action |-> "DEPLOYMENT", ticker |-> tile.ticker,
                          priority_score |-> RatMul(tile.sos_score, Rat(100, 1))] >>
                 ELSE <<>>
        black == IF /\ tactical_piece # None
                    /\ tile.square_color = "black"
                    /\ can_deploy_tactical_black(tile, inventory[tactical_piece])
                 THEN << [action |-> "DEPLOYMENT_TACTICAL", ticker |-> tile.ticker,
                          priority_score |-> RatMul(tile.sos_score, Rat(50, 1))] >>
                 ELSE <<>>
    IN  white \o black

\* the opportunities of the tiles in the board's order
RECURSIVE scan_tiles(_, _, _, _)
scan_tiles(tiles, positions_open, inventory, game_state) ==
    IF tiles = <<>> THEN <<>>
    ELSE LET tile == Head(tiles)
             advice == IF tile.ticker \in DOMAIN positions_open
                       THEN analyze_existing_position(positions_open[tile.ticker], tile)
                       ELSE analyze_deployment_opportunity(tile, inventory, game_state)
         IN  advice \o scan_tiles(Tail(tiles), positions_open, inventory, game_state)

\* variant: of equal priorities the one generated later comes first
RECURSIVE sort_by_priority_later_first(_)
sort_by_priority_later_first(opportunities) ==
    IF opportunities = <<>> THEN <<>>
    ELSE LET n == Len(opportunities)
             x == opportunities[n]
             rest == sort_by_priority_later_first(SubSeq(opportunities, 1, n - 1))
             before == SelectSeq(rest, LAMBDA y : RatLt(x.priority_score, y.priority_score))
             after == SelectSeq(rest, LAMBDA y : ~RatLt(x.priority_score, y.priority_score))
         IN  before \o <<x>> \o after

\* opportunities.sort(key=lambda x: -x["priority_score"]): a stable sort, the last
\* element goes behind every element of the sorted rest that is not smaller
RECURSIVE sort_by_priority(_)
sort_by_priority(opportunities) ==
    IF opportunities = <<>> THEN <<>>
    ELSE LET n == Len(opportunities)
             x == opportunities[n]
             rest == sort_by_priority(SubSeq(opportunities, 1, n - 1))
             before == SelectSeq(rest, LAMBDA y : RatLe(x.priority_score, y.priority_score))
             after == SelectSeq(rest, LAMBDA y : ~RatLe(x.priority_score, y.priority_score))
         IN  before \o <<x>> \o after

\* MoveSuggestionEngine.suggest_moves: opportunities[:3] after the sort
suggest_moves(tiles, positions_open, inventory, game_state) ==
    LET sorted == sort_by_priority(scan_tiles(tiles, positions_open, inventory, game_state))
    IN  SubSeq(sorted, 1, IF Len(sorted) < 3 THEN Len(sorted) ELSE 3)

\* no backtest is running and no pool operation is recorded: a trader of the framework
\* and its inventory
InitFnOf(levels) ==
    /\ impl = "framework"
    /\ \E level \in levels :
          momentum_capital = RatMul(Rat(total_capital, 1), RiskLevel[level])
    /\ pieces = <<>>
    /\ fw_pieces = fw_build_pieces(momentum_capital)
    /\ acquired = [op |-> "none", ret |-> None]
    /\ released = [unit |-> None, phase |-> "none", before |-> 0, after |-> 0]
    /\ call = [op |-> "none"]
    /\ tickers = {}
    /\ max_positions = 0
    /\ reclaim_window = 0
    /\ dates = <<>>
    /\ price_panel = <<>>
    /\ i = 0
    /\ pc = "rules"
    /\ positions = <<>>
    /\ to_close = <<>>
    /\ cand_sorted = <<>>
    /\ available_slots = 0
    /\ trades = <<>>

\* rules_engine.check_retreat_required(piece, tile, days_held)
CheckRetreat ==
    /\ pc = "rules"
    /\ \E piece \in HeldPieces, tile \in Tiles(1), days_held \in 0..MaxDaysHeld :
          call' = [op |-> "check_retreat_required", piece |-> piece, tile |-> tile,
                   days_held |-> days_held,
                   ret |-> check_retreat_required(piece, tile, days_held)]
    /\ pc' = "returned"
    /\ UNCHANGED poolvars
    /\ UNCHANGED << tickers, max_positions, reclaim_window, dates, price_panel, i,
                    positions, to_close, cand_sorted, available_slots, trades >>

InitFn == InitFnOf(DOMAIN RiskLevel)

NextFn == CheckRetreat

SpecFn == InitFn /\ [][NextFn]_vars

\* C16: check_retreat_required is true exactly when (a) the unit was entered on a white
\* square and the tile is now black, or (b) the unit is tactical, more days than its
\* reclaim window have passed and the tile is not white; so it is false for a tactical
\* unit whose tile is white.
C16_RetreatIff ==
    call.op = "check_retreat_required" =>
        (call.ret[1] <=>
            \/ (call.piece.entry_square = "white" /\ call.tile.square_color = "black")
            \/ (/\ call.piece.tactical_black
                /\ call.days_held > call.piece.tactical_reclaim_window
                /\ call.tile.square_color # "white"))

(***************************************************************************)
(* MoveSuggestionEngine of a trader at the HIGH risk level: suggest_moves  *)
(* over boards of BoardTickers tickers, and the deployment analysis of one *)
(* tile against the inventories the front ends can leave.                  *)
(***************************************************************************)
\* the board of the suggestion engine has the tickers 1..BoardTickers
BoardTickers == 3

\* the boards of BoardTickers tiles, in the order of board.tiles
Boards ==
    {[t \in 1..BoardTickers |-> StockTile(t, p[t], 1, s[t])] :
        p \in [1..BoardTickers -> 1..2], s \in [1..BoardTickers -> SosSamples]}

\* game_state.positions_open: ticker -> unit, no unit on two tickers
OpenPositions ==
    UNION {{f \in [S -> HeldPieces] :
               \A a \in S, b \in S : a # b => f[a].piece_id # f[b].piece_id} :
           S \in SUBSET (1..BoardTickers)}

\* the inventory in which the units of positions_open are the deployed ones
InventoryWith(positions_open) ==
    [k \in DOMAIN fw_pieces |->
        IF \E t \in DOMAIN positions_open : positions_open[t].piece_id = k
        THEN positions_open[CHOOSE t \in DOMAIN positions_open :
                                positions_open[t].piece_id = k]
        ELSE fw_pieces[k]]

\* the fields of game_state the engine reads
GameState(deployed) ==
    [pieces_deployed |-> deployed,
     king_cash |-> RatSub(Rat(total_capital, 1), momentum_capital)]

\* suggestion_engine.suggest_moves(game_state, inventory)
SuggestMoves ==
    /\ pc = "rules"
    /\ \E tiles \in Boards, positions_open \in OpenPositions :
          LET inventory == InventoryWith(positions_open)
              game_state == GameState(Cardinality(DOMAIN positions_open))
          IN  call' = [op |-> "suggest_moves", tiles |-> tiles,
                       positions_open |-> positions_open, game_state |-> game_state,
                       ret |-> suggest_moves(tiles, positions_open, inventory, game_state)]
    /\ pc' = "returned"
    /\ UNCHANGED poolvars
    /\ UNCHANGED << tickers, max_positions, reclaim_window, dates, price_panel, i,
                    positions, to_close, cand_sorted, available_slots, trades >>

\* the units deployed so far: the web front end deploys the best unit for the rank, so
\* the units in pool order; the command-line front end deploys by type, here the pawns
\* before the others
DeployedSets ==
    LET pawns == {k \in DOMAIN fw_pieces : fw_pieces[k].piece_type = PieceType("PAWN")}
    IN  {1..k : k \in 0..Len(fw_pieces)} \cup {pawns \cup (1..k) : k \in 0..Len(fw_pieces)}

\* the inventory after inventory.assign_piece on each unit of D
InventoryAfter(D) ==
    [k \in DOMAIN fw_pieces |->
        IF k \in D THEN [fw_pieces[k] EXCEPT !.assigned = TRUE] ELSE fw_pieces[k]]

\* suggestion_engine._analyze_deployment_opportunity(tile, inventory, game_state)
AnalyzeDeployment ==
    /\ pc = "rules"
    /\ \E tile \in Tiles(1), D \in DeployedSets :
          LET inventory == InventoryAfter(D)
              game_state == GameState(Cardinality(D))
          IN  call' = [op |-> "analyze_deployment_opportunity", tile |-> tile,
                       deployed |-> D, game_state |-> game_state,
                       ret |-> analyze_deployment_opportunity(tile, inventory, game_state)]
    /\ pc' = "returned"
    /\ UNCHANGED poolvars
    /\ UNCHANGED << tickers, max_positions, reclaim_window, dates, price_panel, i,
                    positions, to_close, cand_sorted, available_slots, trades >>

InitAdvise == InitFnOf({"HIGH"})

NextAdvise ==
    \/ SuggestMoves
    \/ AnalyzeDeployment

SpecAdvise == InitAdvise /\ [][NextAdvise]_vars

\* everything that fired for the arguments of the last suggest_moves, in generation order
Fired ==
    scan_tiles(call.tiles, call.positions_open, InventoryWith(call.positions_open),
               call.game_state)

\* how many advisories of the list come before its j-th: those of higher priority and
\* those of equal priority generated earlier
Ahead(fired, j) ==
    Cardinality({k \in DOMAIN fired :
                    \/ RatLt(fired[j].priority_score, fired[k].priority_score)
                    \/ (fired[k].priority_score = fired[j].priority_score /\ k < j)})

\* C17: suggest_moves returns min(3, fired) advisories; the n-th returned is the fired
\* advisory with exactly n-1 advisories ahead of it, where an advisory is ahead of another
\* when its priority is higher, or equal and it was generated earlier.
C17_TopThreeStable ==
    call.op = "suggest_moves" =>
        LET fired == Fired
            ret == call.ret
        IN  /\ Len(ret) = (IF Len(fired) < 3 THEN Len(fired) ELSE 3)
            /\ \A n \in DOMAIN ret :
                  \E j \in DOMAIN fired : Ahead(fired, j) = n - 1 /\ ret[n] = fired[j]
            /\ \A n \in DOMAIN ret : \A m \in DOMAIN ret :
                  n < m => RatLe(ret[m].priority_score, ret[n].priority_score)

\* more than three advisories fired, with a tie inside the top three and a tie across
\* the cut
C17_Witness ==
    /\ call.op = "suggest_moves"
    /\ LET fired == Fired
           ret == call.ret
       IN  /\ Len(fired) > 3
           /\ ret[1].priority_score = ret[2].priority_score
           /\ \E j \in DOMAIN fired :
                 Ahead(fired, j) = 3 /\ fired[j].priority_score = ret[3].priority_score

\* C18: an opening advisory, on a white square or tactical, is emitted only when the
\* number of deployed units is strictly below king_cash divided by the monetary value of
\* the unit the advisory proposes.
C18_HeadroomGatesBoth ==
    call.op = "analyze_deployment_opportunity" =>
        LET inventory == InventoryAfter(call.deployed)
            piece == fw_get_best_piece_for_rank(inventory, call.tile.rank)
            tactical_piece == fw_get_tactical_piece(inventory)
        IN  \A n \in DOMAIN call.ret :
               LET unit == IF call.ret[n].action = "DEPLOYMENT" THEN piece
                           ELSE tactical_piece
               IN  RatLt(Rat(call.game_state.pieces_deployed, 1),
                         RatDiv(call.game_state.king_cash, inventory[unit].monetary_value))

(***************************************************************************)
(* The maps from a score to a board position, of both files, applied to    *)
(* the fractions of [0, 1] with a denominator up to MaxDen.                *)
(***************************************************************************)
MaxDen == 16

Scores == {q \in {Rat(a, b) : a \in 0..MaxDen, b \in 1..MaxDen} : RatLe(q, Rat(1, 1))}

\* the position of a score as the file named computes it
PositionOf(file, s) == IF file = "chess_framework" THEN sos_to_position(s) ELSE map_sos_to_tile(s)

\* "ABCDEFGH".index(f)
FileIndex(f) ==
    CHOOSE n \in 0..7 : <<"A", "B", "C", "D", "E", "F", "G", "H">>[n + 1] = f

\* SOSScorer.sos_to_position(s), or map_sos_to_tile(s) of the single-file backtester
MapScore ==
    /\ pc = "rules"
    /\ \E file \in {"chess_framework", "chess_backtester_single_file"}, s \in Scores :
          call' = [op |-> "sos_to_position", file |-> file, s |-> s,
                   ret |-> PositionOf(file, s)]
    /\ pc' = "returned"
    /\ UNCHANGED poolvars
    /\ UNCHANGED << tickers, max_positions, reclaim_window, dates, price_panel, i,
                    positions, to_close, cand_sorted, available_slots, trades >>

InitRank == InitFnOf({"MODERATE"})

NextRank == MapScore

SpecRank == InitRank /\ [][NextRank]_vars

\* C19: for a score s in [0,1] the rank is clamp(1 + floor((1 - s) * 8), 1, 8), in 1..8,
\* and the file is "ABCDEFGH"[clamp(floor(8 * s), 0, 7)]; rank(1) = 1 and rank(0) = 8; a
\* score at most s has a rank at least rank(s) and a file at most file(s).
C19_RankFileMonotone ==
    call.op = "sos_to_position" =>
        LET s == call.s
            rank == call.ret[1]
            file == call.ret[2]
            raw_rank == 1 + RatFloor(RatMul(RatSub(Rat(1, 1), s), Rat(8, 1)))
            raw_idx == RatFloor(RatMul(s, Rat(8, 1)))
        IN  /\ rank \in 1..8
            /\ rank = (IF raw_rank < 1 THEN 1 ELSE IF raw_rank > 8 THEN 8 ELSE raw_rank)
            /\ file \in {"A", "B", "C", "D", "E", "F", "G", "H"}
            /\ FileIndex(file) = (IF raw_idx < 0 THEN 0 ELSE IF raw_idx > 7 THEN 7 ELSE raw_idx)
            /\ (s = Rat(1, 1) => rank = 1)
            /\ (s = Rat(0, 1) => rank = 8)
            /\ \A s2 \in Scores :
                  RatLe(s2, s) =>
                      /\ rank <= PositionOf(call.file, s2)[1]
                      /\ FileIndex(file) >= FileIndex(PositionOf(call.file, s2)[2])

\* the score 0 of the framework, where the clamp acts
C19_Witness ==
    /\ call.op = "sos_to_position"
    /\ call.file = "chess_framework"
    /\ call.s = Rat(0, 1)
    /\ call.ret = <<8, "A">>

(***************************************************************************)
(* TradingRulesEngine.check_game_phase on the game states of a trader with *)
(* any number of its units deployed and any reserve.                       *)
(***************************************************************************)
\* king_cash as a fraction of total_capital: what the three risk levels leave, and
\* reserves at and below a fifth
ReserveFractions ==
    {RatSub(Rat(1, 1), RiskLevel[level]) : level \in DOMAIN RiskLevel}
        \cup {Rat(0, 1), Rat(1, 10), Rat(1, 5), Rat(21, 100)}

\* variant: a reserve of exactly 20% still counts as middlegame
check_game_phase_at_least(game_state) ==
    IF game_state.pieces_deployed < 4 THEN "opening"
    ELSE IF /\ game_state.pieces_deployed < 8
            /\ RatLe(RatMul(Rat(game_state.total_capital, 1), Rat(1, 5)), game_state.king_cash)
         THEN "middlegame"
         ELSE "endgame"

\* TradingRulesEngine.check_game_phase: the value of the GamePhase returned
check_game_phase(game_state) ==
    IF game_state.pieces_deployed < 4 THEN "opening"
    ELSE IF /\ game_state.pieces_deployed < 8
            /\ RatLt(RatMul(Rat(game_state.total_capital, 1), Rat(1, 5)), game_state.king_cash)
         THEN "middlegame"
         ELSE "endgame"

\* rules_engine.check_game_phase(game_state)
CheckGamePhase ==
    /\ pc = "rules"
    /\ \E deployed \in 0..Len(fw_pieces), fraction \in ReserveFractions :
          LET game_state == [pieces_deployed |-> deployed,
                             total_capital |-> total_capital,
                             king_cash |-> RatMul(Rat(total_capital, 1), fraction)]
          IN  call' = [op |-> "check_game_phase", game_state |-> game_state,
                       ret |-> check_game_phase(game_state)]
    /\ pc' = "returned"
    /\ UNCHANGED poolvars
    /\ UNCHANGED << tickers, max_positions, reclaim_window, dates, price_panel, i,
                    positions, to_close, cand_sorted, available_slots, trades >>

SpecPhase == InitFnOf({"MODERATE"}) /\ [][CheckGamePhase]_vars

\* C21: the phase is OPENING with fewer than 4 units deployed, MIDDLEGAME with 4 to 7
\* deployed and a reserve strictly above 20% of the total capital, ENDGAME otherwise.
C21_PhaseClassifier ==
    call.op = "check_game_phase" =>
        LET n == call.game_state.pieces_deployed
            above == 5 * call.game_state.king_cash[1]
                        > call.game_state.total_capital * call.game_state.king_cash[2]
        IN  call.ret = (IF n < 4 THEN "opening"
                        ELSE IF n \in 4..7 /\ above THEN "middlegame"
                        ELSE "endgame")

\* 4 to 7 deployed and a reserve of exactly 20%: ENDGAME
C21_Witness ==
    /\ call.op = "check_game_phase"
    /\ call.game_state.pieces_deployed = 5
    /\ call.game_state.king_cash = Rat(total_capital, 5)
    /\ call.ret = "endgame"

(***************************************************************************)
(* MoveSuggestionEngine._analyze_existing_position on one held unit, its   *)
(* tile, and a game state whose date is some days after the unit's entry.  *)
(***************************************************************************)
\* suggestion_engine._analyze_existing_position(piece, tile, game_state); the unit was
\* entered on entry_date and game_state.current_date is MaxDaysHeld
AnalyzeExisting ==
    /\ pc = "rules"
    /\ \E unit \in HeldPieces, entry_date \in 0..MaxDaysHeld, tile \in Tiles(1) :
          LET piece == [unit EXCEPT !.entry_date = entry_date]
          IN  call' = [op |-> "analyze_existing_position", piece |-> piece, tile |-> tile,
                       game_state |-> [current_date |-> MaxDaysHeld,
                                       pieces_deployed |-> 1,
                                       king_cash |-> GameState(1).king_cash],
                       ret |-> analyze_existing_position(piece, tile)]
    /\ pc' = "returned"
    /\ UNCHANGED poolvars
    /\ UNCHANGED << tickers, max_positions, reclaim_window, dates, price_panel, i,
                    positions, to_close, cand_sorted, available_slots, trades >>

SpecHeld == InitFnOf({"HIGH"}) /\ [][AnalyzeExisting]_vars

\* C24: for a held tactical unit whose tile is black and which has been held for more
\* days than its reclaim window, the advice contains a RETREAT advisory of priority 100
\* for the instrument.
C24_TacticalTimeoutAdvised ==
    (/\ call.op = "analyze_existing_position"
     /\ call.piece.tactical_black
     /\ call.tile.square_color = "black"
     /\ call.game_state.current_date - call.piece.entry_date
            > call.piece.tactical_reclaim_window)
    => \E n \in DOMAIN call.ret :
          /\ call.ret[n].action = "RETREAT"
          /\ call.ret[n].ticker = call.tile.ticker
          /\ call.ret[n].priority_score = Rat(100, 1)
(***************************************************************************)
(* Release specification: chess_framework.PieceInventory.assign_piece and  *)
(* unassign_piece, one call a step, on the pool of a new trader.  The pool *)
(* hands its Piece objects to the callers; the position fields a unit      *)
(* carries when it is released are an argument of the release.             *)
(***************************************************************************)
\* the position-specific fields of a unit
PositionFields(p) ==
    [position |-> p.position, entry_date |-> p.entry_date, entry_price |-> p.entry_price,
     entry_square |-> p.entry_square, shares |-> p.shares,
     tactical_black |-> p.tactical_black,
     tactical_reclaim_window |-> p.tactical_reclaim_window]

\* the position fields of a unit deployed on a white square, or on a black square as a
\* tactical position with a reclaim window
Deployments ==
    {[position |-> pos, entry_date |-> 1, entry_price |-> 1, entry_square |-> sq,
      shares |-> n, tactical_black |-> (sq = "black"),
      tactical_reclaim_window |-> IF sq = "black" THEN w ELSE 0] :
        pos \in {<<1, "A">>, <<8, "H">>}, n \in 1..2,
        sq \in {"white", "black"}, w \in 1..MaxReclaim}

\* the unit p carrying the position fields d
WithFields(p, d) ==
    [p EXCEPT !.position = d.position, !.entry_date = d.entry_date,
              !.entry_price = d.entry_price, !.entry_square = d.entry_square,
              !.shares = d.shares, !.tactical_black = d.tactical_black,
              !.tactical_reclaim_window = d.tactical_reclaim_window]

\* inventory.assign_piece(piece_id) of an unassigned unit k, while fewer than MaxHeld
\* units are assigned
AssignUnit(k) ==
    /\ pc = "pool"
    /\ impl = "framework"
    /\ k \in Unassigned
    /\ Cardinality(Assigned) < MaxHeld
    /\ fw_pieces' = fw_assign_piece(fw_pieces, fw_pieces[k].piece_id)
    /\ released' = [unit |-> k, phase |-> "assigned",
                    before |-> Cardinality(Unassigned), after |-> 0]
    /\ UNCHANGED << impl, momentum_capital, pieces, acquired >>
    /\ UNCHANGED runvars
    /\ UNCHANGED call

\* inventory.unassign_piece(piece_id) of an assigned unit k that carries the position
\* fields d: those of a deployment, or the ones it has.  It is the release of an assign/release pair when k is the unit assigned
\* last and nothing was released since.
UnassignUnit(k) ==
    /\ pc = "pool"
    /\ impl = "framework"
    /\ k \in Assigned
    /\ \E d \in Deployments \cup {PositionFields(fw_pieces[k])} :
          LET held == [fw_pieces EXCEPT ![k] = WithFields(@, d)]
              after == unassign_piece(held, held[k].piece_id)
          IN  /\ fw_pieces' = after
              /\ released' =
                     IF released.unit = k /\ released.phase = "assigned"
                     THEN [released EXCEPT
                              !.phase = "released",
                              !.after = Cardinality({j \in DOMAIN after :
                                                        ~after[j].assigned})]
                     ELSE [unit |-> None, phase |-> "none", before |-> 0, after |-> 0]
              /\ call' = [op |-> "unassign_piece", piece |-> held[k]]
    /\ pc' = "returned"
    /\ UNCHANGED << impl, momentum_capital, pieces, acquired >>
    /\ UNCHANGED << tickers, max_positions, reclaim_window, dates, price_panel, i,
                    positions, to_close, cand_sorted, available_slots, trades >>

InitRelease == InitPoolOf({"framework"}, {Rat(c, 1) : c \in 1..MaxCapital})

NextRelease ==
    \/ \E k \in 1..15 : AssignUnit(k)
    \/ \E k \in 1..15 : UnassignUnit(k)

SpecRelease == InitRelease /\ [][NextRelease]_vars

\* C9: when a unit has been assigned and then released, whatever position fields it
\* carried when it was released, the pool has as many unassigned units as before the
\* assignment and the unit's position, entry date, entry price, entry square, share count,
\* tactical flag and reclaim window are those of a freshly constructed unit.
C9_AssignReleaseRestores ==
    released.phase = "released" =>
        /\ released.after = released.before
        /\ PositionFields(fw_pieces[released.unit]) =
               PositionFields(fw_build_pieces(momentum_capital)[released.unit])


(***************************************************************************)
(* BoardPosition.__post_init__.  A str argument is the sequence of its     *)
(* characters, so that "", "A" and "AB" are <<>>, <<"A">> and <<"A","B">>. *)
(***************************************************************************)
MaxRankArg == 9
MaxFileLen == 2

\* the literal "ABCDEFGH"
FileLetters == <<"A", "B", "C", "D", "E", "F", "G", "H">>

\* the characters the file arguments are built from
FileChars == {"A", "B", "C", "D", "E", "F", "G", "H", "I", "a"}

\* the file arguments: every string of at most MaxFileLen characters
FileArgs == UNION {[1..n -> FileChars] : n \in 0..MaxFileLen}

\* s in t, for two strings
str_contains(t, s) ==
    \E a \in 0..(Len(t) - Len(s)) : \A j \in 1..Len(s) : t[a + j] = s[j]

\* BoardPosition(rank, file): the exception raised ("" for none) and the fields
BoardPosition(rank, file) ==
    IF ~(1 <= rank /\ rank <= 8) THEN [raised |-> "ValueError", rank |-> rank, file |-> file]
    ELSE IF ~str_contains(FileLetters, file)
         THEN [raised |-> "ValueError", rank |-> rank, file |-> file]
         ELSE [raised |-> "", rank |-> rank, file |-> file]

NewBoardPosition ==
    /\ pc = "rules"
    /\ \E rank \in 0..MaxRankArg, file \in FileArgs :
          call' = [op |-> "BoardPosition", rank |-> rank, file |-> file,
                   ret |-> BoardPosition(rank, file)]
    /\ pc' = "returned"
    /\ UNCHANGED poolvars
    /\ UNCHANGED << tickers, max_positions, reclaim_window, dates, price_panel, i,
                    positions, to_close, cand_sorted, available_slots, trades >>

SpecBoard == InitFnOf({"MODERATE"}) /\ [][NewBoardPosition]_vars

\* C29: a BoardPosition is constructed without ValueError only with a rank in 1..8 and a
\* file that is exactly one of the single letters A..H.
C29_FileWithinBounds ==
    (call.op = "BoardPosition" /\ call.ret.raised = "") =>
        /\ call.rank \in 1..8
        /\ Len(call.file) = 1
        /\ call.file[1] \in {"A", "B", "C", "D", "E", "F", "G", "H"}
(***************************************************************************)
(* A board on which every ticker is held, and further properties of the    *)
(* advisory functions and of the coordinates.                              *)
(***************************************************************************)
\* a board of CrowdTickers tickers, each with an open position
CrowdTickers == 4

\* the boards: price 1 or 2 against a moving average of 1, score 0 or 1
CrowdBoards ==
    {[t \in 1..CrowdTickers |-> StockTile(t, p[t], 1, s[t])] :
        p \in [1..CrowdTickers -> 1..2], s \in [1..CrowdTickers -> {Rat(0, 1), Rat(1, 1)}]}

\* game_state.positions_open: ticker t holds unit t, entered on a white square at 1 or 2
CrowdPositions ==
    {[t \in 1..CrowdTickers |->
         [fw_pieces[t] EXCEPT !.assigned = TRUE, !.entry_price = e[t],
                              !.entry_square = "white", !.shares = 1]] :
        e \in [1..CrowdTickers -> 1..2]}

\* suggestion_engine.suggest_moves(game_state, inventory) with every ticker held
SuggestMovesCrowd ==
    /\ pc = "rules"
    /\ \E tiles \in CrowdBoards, positions_open \in CrowdPositions :
          LET inventory == InventoryWith(positions_open)
              game_state == GameState(CrowdTickers)
          IN  call' = [op |-> "suggest_moves", tiles |-> tiles,
                       positions_open |-> positions_open, game_state |-> game_state,
                       ret |-> suggest_moves(tiles, positions_open, inventory, game_state)]
    /\ pc' = "returned"
    /\ UNCHANGED poolvars
    /\ UNCHANGED << tickers, max_positions, reclaim_window, dates, price_panel, i,
                    positions, to_close, cand_sorted, available_slots, trades >>

SpecCrowd == InitFnOf({"MODERATE"}) /\ [][SuggestMovesCrowd]_vars

\* C33: whenever a RETREAT advisory fires for the arguments of suggest_moves, the list it
\* returns contains a RETREAT advisory.
C33_RetreatSurvivesCut ==
    call.op = "suggest_moves" =>
        LET fired == Fired
        IN  (\E j \in DOMAIN fired : fired[j].action = "RETREAT") =>
                \E n \in DOMAIN call.ret : call.ret[n].action = "RETREAT"

\* C36: the deployment analysis emits a DEPLOYMENT advisory only when the largest
\* unassigned unit of the pool meets the minimum of the tile's rank band (1 for rank 1-2,
\* 3 for rank 3-4, 5 for rank 5-6, 9 for rank 7-8); so with the unit of point value 9
\* assigned there is no DEPLOYMENT advisory for a tile of rank 7 or 8.
C36_OpeningNeedsBandUnit ==
    call.op = "analyze_deployment_opportunity" =>
        LET inventory == InventoryAfter(call.deployed)
            free == {k \in DOMAIN inventory : ~inventory[k].assigned}
            rank == call.tile.rank
            band == IF rank <= 2 THEN 1 ELSE IF rank <= 4 THEN 3 ELSE IF rank <= 6 THEN 5 ELSE 9
            emitted == \E n \in DOMAIN call.ret : call.ret[n].action = "DEPLOYMENT"
        IN  /\ emitted => \E k \in free : inventory[k].point_value >= band
            /\ ((\A k \in free : inventory[k].point_value < 9) /\ rank >= 7) => ~emitted

\* a white tile of rank 7 or 8 analysed with the largest unit assigned and smaller units
\* free: no DEPLOYMENT advisory
C36_Witness ==
    /\ call.op = "analyze_deployment_opportunity"
    /\ call.tile.rank >= 7
    /\ call.tile.square_color = "white"
    /\ LET inventory == InventoryAfter(call.deployed)
       IN  /\ \E k \in DOMAIN inventory : inventory[k].point_value = 9 /\ inventory[k].assigned
           /\ \E k \in DOMAIN inventory : inventory[k].point_value = 5 /\ ~inventory[k].assigned
    /\ \A n \in DOMAIN call.ret : call.ret[n].action # "DEPLOYMENT"

\* C38: for every score in [0,1] the rank and the file index (A = 0 .. H = 7) of its
\* position add up to 8 or 9, and the positions of all scores together are at most 16
\* squares of the board.
C38_TwoAntiDiagonals ==
    call.op = "sos_to_position" =>
        LET reached == {PositionOf(call.file, s) : s \in Scores}
        IN  /\ call.ret[1] + FileIndex(call.ret[2]) \in {8, 9}
            /\ Cardinality(reached) <= 16

\* a score on the boundary of two ranks, whose position lies on the upper anti-diagonal
C38_Witness ==
    /\ call.op = "sos_to_position"
    /\ call.s = Rat(1, 2)
    /\ call.ret = <<5, "E">>
    /\ call.ret[1] + FileIndex(call.ret[2]) = 9
====
